---- MODULE Spec2Model ----
(***************************************************************************)
(* Model of ExtendedBaseOverSampler._sample and _generate_classes_stats    *)
(* (sklearnext/over_sampling/base.py).                                     *)
(*                                                                         *)
(* A data frame is a bag of rows (row -> number of copies): the order of   *)
(* rows is not observable in any property below.  A row is a record        *)
(* [x |-> column -> value, y |-> label].  Feature values are counted in    *)
(* halves (2 is 1.0, 3 is 1.5, 5 is 2.5) so that np.round has something to *)
(* round.  Ratios and weights are exact fractions <<p, q>>; <<0, 0>> is    *)
(* NaN.                                                                    *)
(***************************************************************************)
EXTENDS Integers, Sequences, FiniteSets, TLC

VARIABLES
    categorical_cols,           \* self.categorical_cols (NoCols is None)
    integer_cols,               \* self.integer_cols (NoCols is None)
    imbalance_ratio_threshold,  \* self.imbalance_ratio_threshold
    k_neighbors,                \* self.k_neighbors (NoK: no such attribute)
    ratio_,                     \* self.ratio_: label -> samples to generate
    fitted_ratio,               \* ratio_ as it was when the call started
    pc,                         \* "idle", "loop", "returned", "raised"
    error,                      \* the exception raised, "" if none
    X_y,                        \* the rows (X, y) the call has read
    majority_label,             \* line 123
    classes_stats,              \* lines 125-134, one entry per group
    weights,                    \* lines 141-146, one row per included group
    initial_ratio,              \* line 148
    i,                          \* position of the loop of line 154
    X_resampled,                \* X_resampled, y_resampled of lines 150-173
    calls,                      \* the invocations of _partial_sample so far
    n_overasmpled_groups_,      \* line 137
    passed_through,             \* rows appended by lines 179-182, before rounding
    result                      \* the value returned

vars == <<categorical_cols, integer_cols, imbalance_ratio_threshold, k_neighbors,
          ratio_, fitted_ratio, pc, error, X_y, majority_label, classes_stats,
          weights, initial_ratio, i, X_resampled, calls, n_overasmpled_groups_,
          passed_through, result>>

config == <<categorical_cols, integer_cols, imbalance_ratio_threshold, k_neighbors>>

locals == <<majority_label, classes_stats, weights, initial_ratio, i, X_resampled,
            n_overasmpled_groups_, passed_through>>

(***************************************************************************)
(* Bounds and input domains                                                *)
(***************************************************************************)
MaxRows == 3
MaxTarget == 3

Labels == {0, 1, 2}
Cols == {0, 1, 2}
ColVals(c) == CASE c = 0 -> {2, 4} [] c = 1 -> {2, 3} [] OTHER -> {5}
SynthVals == {3, 4}

NoCols == [some |-> FALSE, val |-> <<>>]
SomeCols(s) == [some |-> TRUE, val |-> s]
NoK == [some |-> FALSE, val |-> 0]
SomeK(k) == [some |-> TRUE, val |-> k]

CategoricalChoices == {NoCols, SomeCols(<<>>), SomeCols(<<0>>), SomeCols(<<3>>)}
IntegerChoices == {NoCols, SomeCols(<<1>>), SomeCols(<<0>>)}
Thresholds == {0, 1, 5, 11}
KChoices == {NoK, SomeK(1)}

(***************************************************************************)
(* Bags                                                                    *)
(***************************************************************************)
EmptyBag == [e \in {} |-> 0]
Cnt(b, e) == IF e \in DOMAIN b THEN b[e] ELSE 0
BagAdd(a, b) == [e \in DOMAIN a \cup DOMAIN b |-> Cnt(a, e) + Cnt(b, e)]
One(e) == [d \in {e} |-> 1]

RECURSIVE SumOver(_, _)
SumOver(f, S) ==
    IF S = {} THEN 0
    ELSE LET e == CHOOSE e \in S : TRUE IN f[e] + SumOver(f, S \ {e})

BagSize(b) == SumOver(b, DOMAIN b)

Range(s) == {s[n] : n \in DOMAIN s}

Rows == {[x |-> f, y |-> l] : f \in {g \in [Cols -> 0..5] : \A c \in Cols : g[c] \in ColVals(c)},
                              l \in Labels}

RECURSIVE BagsUpTo(_)
BagsUpTo(n) ==
    IF n = 0 THEN {EmptyBag}
    ELSE LET smaller == BagsUpTo(n - 1)
         IN smaller \cup {BagAdd(b, One(r)) : b \in smaller, r \in Rows}

\* The scenario of the documentation: 100 rows of label 0 and 10 of label 1,
\* split 70/30 by the categorical column 0, with 7 and 3 rows of label 1.
ScenarioRow(c, l) == [x |-> [d \in Cols |-> IF d = 0 THEN c ELSE IF d = 1 THEN 2 ELSE 5], y |-> l]
ScenarioData ==
    [r \in {ScenarioRow(2, 0), ScenarioRow(2, 1), ScenarioRow(4, 0), ScenarioRow(4, 1)} |->
        IF r.y = 0 THEN (IF r.x[0] = 2 THEN 70 ELSE 30) ELSE (IF r.x[0] = 2 THEN 7 ELSE 3)]
ScenarioRatio == [l \in {0, 1} |-> IF l = 0 THEN 0 ELSE 100]

\* One group with the three labels in different numbers, another with label 0 only.
MixedData ==
    [r \in {ScenarioRow(2, 0), ScenarioRow(2, 1), ScenarioRow(2, 2), ScenarioRow(4, 0)} |->
        IF r.y = 1 \/ r.x[0] = 4 THEN 2 ELSE 1]

Datasets == (BagsUpTo(MaxRows) \ {EmptyBag}) \cup {ScenarioData, MixedData}

LabelsOf(b) == {r.y : r \in DOMAIN b}

Ratios ==
    {ScenarioRatio} \cup
    UNION {{r \in [L -> {0, MaxTarget}] : \E l \in L : r[l] = 0} : L \in (SUBSET Labels) \ {{}}}

(***************************************************************************)
(* Fractions                                                               *)
(***************************************************************************)
NaN == <<0, 0>>
IsNaN(a) == a[2] = 0
RLess(a, b) == a[1] * b[2] < b[1] * a[2]
RAdd(a, b) == <<a[1] * b[2] + b[1] * a[2], a[2] * b[2]>>
RDiv(a, b) == IF IsNaN(a) \/ IsNaN(b) \/ b[1] = 0 THEN NaN ELSE <<a[1] * b[2], a[2] * b[1]>>

\* Series.sum(): NaN entries are skipped, the sum of nothing is 0.
RECURSIVE SeriesSum(_)
SeriesSum(s) ==
    IF s = <<>> THEN <<0, 1>>
    ELSE IF IsNaN(Head(s)) THEN SeriesSum(Tail(s))
    ELSE RAdd(Head(s), SeriesSum(Tail(s)))

\* np.round on a value counted in halves: halves go to the even integer.
NpRound(h) ==
    IF h % 2 = 0 THEN h
    ELSE LET q == (h - 1) \div 2 IN IF q % 2 = 0 THEN 2 * q ELSE 2 * (q + 1)

BagFilter(b, P(_)) == [e \in {d \in DOMAIN b : P(d)} |-> b[e]]
BagMap(b, F(_)) == [e \in {F(d) : d \in DOMAIN b} |-> SumOver(b, {d \in DOMAIN b : F(d) = e})]

(***************************************************************************)
(* _generate_classes_stats, lines 17-28                                    *)
(***************************************************************************)
Counter(y) == [l \in LabelsOf(y) |-> SumOver(y, {r \in DOMAIN y : r.y = l})]

\* Faulty variant: every label must qualify, instead of any.
include_group_all(counter, majority, threshold, k) ==
    \A label \in DOMAIN counter \ {majority} :
        LET ir == <<Cnt(counter, majority), counter[label]>>
            n_samples == counter[label]
        IN IF k.some
           THEN RLess(ir, <<threshold, 1>>) /\ n_samples > k.val
           ELSE RLess(ir, <<threshold, 1>>)

\* Faulty variant: the ratio upside down, n_samples / majority count.
include_group_inverted(counter, majority, threshold, k) ==
    \E label \in DOMAIN counter \ {majority} :
        LET ir == <<counter[label], Cnt(counter, majority)>>
            n_samples == counter[label]
        IN IF k.some
           THEN RLess(ir, <<threshold, 1>>) /\ n_samples > k.val
           ELSE RLess(ir, <<threshold, 1>>)

include_group(counter, majority, threshold, k) ==
    \E label \in DOMAIN counter \ {majority} :
        LET ir == <<Cnt(counter, majority), counter[label]>>
            n_samples == counter[label]
        IN IF k.some
           THEN RLess(ir, <<threshold, 1>>) /\ n_samples > k.val
           ELSE RLess(ir, <<threshold, 1>>)

modified_imbalance_ratios(counter, majority) ==
    [label \in DOMAIN counter \ {majority} |->
        <<Cnt(counter, majority) + 1, counter[label] + 1>>]

generate_classes_stats(y, majority, threshold, k) ==
    [include |-> include_group(Counter(y), majority, threshold, k),
     ratios |-> modified_imbalance_ratios(Counter(y), majority)]

(***************************************************************************)
(* Grouping, lines 125-136 and 161                                         *)
(***************************************************************************)
GroupKey(r, cat) == [n \in DOMAIN cat |-> r.x[cat[n]]]

LexLeq(a, b) ==
    \/ a = b
    \/ \E n \in DOMAIN a : a[n] < b[n] /\ \A j \in 1..(n - 1) : a[j] = b[j]

RECURSIVE SortedKeys(_)
SortedKeys(S) ==
    IF S = {} THEN <<>>
    ELSE LET m == CHOOSE m \in S : \A o \in S : LexLeq(m, o)
         IN <<m>> \o SortedKeys(S \ {m})

\* pd.merge(df, one row of group values): the rows of df with these values.
MergeGroup(df, cat, key) == BagFilter(df, LAMBDA r : GroupKey(r, cat) = key)

\* df.groupby(categorical_cols, as_index=False).agg(...): groups in key order.
GroupBy(df, cat, majority, threshold, k) ==
    LET keys == SortedKeys({GroupKey(r, cat) : r \in DOMAIN df})
    IN [g \in DOMAIN keys |->
          [key |-> keys[g]] @@
          generate_classes_stats(MergeGroup(df, cat, keys[g]), majority, threshold, k)]

IncludedGroups(stats) == SelectSeq(stats, LAMBDA st : st.include)
ExcludedGroups(stats) == SelectSeq(stats, LAMBDA st : ~st.include)

(***************************************************************************)
(* Oversampling weights, lines 140-146                                     *)
(***************************************************************************)
\* Faulty variant: line 144 left out.
LabelWeightsUnnormalised(imbalance_ratios, label) ==
    [g \in DOMAIN imbalance_ratios |->
        IF label \in DOMAIN imbalance_ratios[g] THEN imbalance_ratios[g][label] ELSE NaN]

LabelWeights(imbalance_ratios, label) ==
    LET column == [g \in DOMAIN imbalance_ratios |->
                      IF label \in DOMAIN imbalance_ratios[g]
                      THEN imbalance_ratios[g][label] ELSE NaN]
    IN [g \in DOMAIN column |-> RDiv(column[g], SeriesSum(column))]

\* One row per included group; with no minority label the frame stays empty.
Weights(stats, minority_labels) ==
    LET imbalance_ratios == [g \in DOMAIN IncludedGroups(stats) |-> IncludedGroups(stats)[g].ratios]
    IN IF minority_labels = {} THEN <<>>
       ELSE [g \in DOMAIN imbalance_ratios |->
               [label \in minority_labels |-> LabelWeights(imbalance_ratios, label)[g]]]

(***************************************************************************)
(* The ratio of one group, lines 157-158                                   *)
(***************************************************************************)
\* int(NaN) raises ValueError.
RatioRaises(initial, weight, majority) ==
    \E label \in DOMAIN initial : label # majority /\ IsNaN(weight[label])

\* Faulty variant: ceil (imported at line 8) instead of int.
GroupRatioCeil(initial, weight, majority) ==
    [label \in DOMAIN initial |->
        IF label # majority
        THEN (initial[label] * weight[label][1] + weight[label][2] - 1) \div weight[label][2]
        ELSE initial[label]]

GroupRatio(initial, weight, majority) ==
    [label \in DOMAIN initial |->
        IF label # majority
        THEN (initial[label] * weight[label][1]) \div weight[label][2]
        ELSE initial[label]]

(***************************************************************************)
(* Rows of one group, lines 161-168 and 172                                *)
(***************************************************************************)
DropCategorical(r, cat) == [x |-> [c \in DOMAIN r.x \ Range(cat) |-> r.x[c]], y |-> r.y]

AttachCategorical(r, cat, key) ==
    [x |-> [c \in DOMAIN r.x \cup Range(cat) |->
              IF c \in Range(cat) THEN key[CHOOSE n \in DOMAIN cat : cat[n] = c] ELSE r.x[c]],
     y |-> r.y]

\* Line 185.
RoundIntegerCols(r, int) ==
    [x |-> [c \in DOMAIN r.x |-> IF c \in Range(int) THEN NpRound(r.x[c]) ELSE r.x[c]], y |-> r.y]

(***************************************************************************)
(* _partial_sample, the abstract method of lines 51-71: it returns the     *)
(* rows it was given and, for every label, ratio[label] new rows of that   *)
(* label over the same columns.                                            *)
(***************************************************************************)
PartialSample(X, cols, ratio, s) ==
    LET new == {l \in DOMAIN ratio : ratio[l] > 0}
    IN BagAdd(X, [r \in {[x |-> [c \in cols |-> s], y |-> l] : l \in new} |-> ratio[r.y]])

(***************************************************************************)
(* Validation, lines 98-118                                                *)
(***************************************************************************)
max_col_index == Cardinality(Cols)

ColsInvalid(cols) ==
    \/ ~cols.some
    \/ Len(cols.val) = 0
    \/ ~(Range(cols.val) \subseteq 0..(max_col_index - 1))

\* Faulty variant: the check of line 117 left out.
ValidationErrorNoThreshold ==
    IF ColsInvalid(integer_cols) THEN "ValueError: integer_cols"
    ELSE IF ColsInvalid(categorical_cols) THEN "ValueError: categorical_cols"
    ELSE IF Range(integer_cols.val) \cap Range(categorical_cols.val) # {}
         THEN "ValueError: common elements"
    ELSE ""

ValidationError ==
    IF ColsInvalid(integer_cols) THEN "ValueError: integer_cols"
    ELSE IF ColsInvalid(categorical_cols) THEN "ValueError: categorical_cols"
    ELSE IF Range(integer_cols.val) \cap Range(categorical_cols.val) # {}
         THEN "ValueError: common elements"
    ELSE IF imbalance_ratio_threshold <= 0 THEN "ValueError: categorical_threshold"
    ELSE ""

(***************************************************************************)
(* The state after construction and fit                                    *)
(***************************************************************************)
Init ==
    /\ categorical_cols \in CategoricalChoices
    /\ integer_cols \in IntegerChoices
    /\ imbalance_ratio_threshold \in Thresholds
    /\ k_neighbors \in KChoices
    /\ ratio_ \in Ratios
    /\ fitted_ratio = ratio_
    /\ pc = "idle"
    /\ error = ""
    /\ X_y = EmptyBag
    /\ majority_label = -1
    /\ classes_stats = <<>>
    /\ weights = <<>>
    /\ initial_ratio = <<>>
    /\ i = 0
    /\ X_resampled = EmptyBag
    /\ calls = <<>>
    /\ n_overasmpled_groups_ = 0
    /\ passed_through = EmptyBag
    /\ result = EmptyBag

\* The data a call is given is the data the sampler was fitted on: ratio_
\* (ratio='auto', line 40) has one entry per label of y.
FittedOn(data) == LabelsOf(data) = DOMAIN ratio_

Invocation(X, key, ratio, out, raised) ==
    [X |-> X, group |-> key, ratio |-> ratio, out |-> out, raised |-> raised]

(***************************************************************************)
(* _sample, lines 93-96: no categorical columns                            *)
(***************************************************************************)
\* Faulty variant: the shortcut taken only when integer_cols is unset too.
UngroupedUnlessInteger == ~categorical_cols.some /\ ~integer_cols.some

\* Line 95.
Ungrouped == ~categorical_cols.some

SampleWhole ==
    /\ pc = "idle"
    /\ Ungrouped
    /\ \E data \in Datasets, s \in SynthVals :
          /\ FittedOn(data)
          /\ X_y' = data
          /\ result' = PartialSample(data, Cols, ratio_, s)
          /\ calls' = Append(calls, Invocation(data, <<>>, ratio_, result', FALSE))
    /\ pc' = "returned"
    /\ UNCHANGED <<config, ratio_, fitted_ratio, error, locals>>

SampleWholeRaises ==
    /\ pc = "idle"
    /\ Ungrouped
    /\ \E data \in Datasets :
          /\ FittedOn(data)
          /\ X_y' = data
          /\ calls' = Append(calls, Invocation(data, <<>>, ratio_, EmptyBag, TRUE))
    /\ pc' = "raised"
    /\ error' = "StrategyError"
    /\ UNCHANGED <<config, ratio_, fitted_ratio, result, locals>>

(***************************************************************************)
(* _sample, lines 98-118: validation fails                                 *)
(***************************************************************************)
SampleInvalid ==
    /\ pc = "idle"
    /\ ~Ungrouped
    /\ ValidationError # ""
    /\ pc' = "raised"
    /\ error' = ValidationError
    /\ UNCHANGED <<config, ratio_, fitted_ratio, X_y, calls, result, locals>>

(***************************************************************************)
(* _sample, lines 120-151: groups, weights, the saved ratio                *)
(***************************************************************************)
SampleSelectGroups ==
    /\ pc = "idle"
    /\ ~Ungrouped
    /\ ValidationError = ""
    /\ \E data \in Datasets, majority \in {l \in DOMAIN ratio_ : ratio_[l] = 0} :
          /\ FittedOn(data)
          /\ X_y' = data
          /\ majority_label' = majority
          /\ classes_stats' = GroupBy(data, categorical_cols.val, majority,
                                      imbalance_ratio_threshold, k_neighbors)
    /\ n_overasmpled_groups_' = Len(IncludedGroups(classes_stats'))
    /\ weights' = Weights(classes_stats', DOMAIN ratio_ \ {majority_label'})
    /\ initial_ratio' = ratio_
    /\ X_resampled' = EmptyBag
    /\ i' = 1
    /\ pc' = "loop"
    /\ UNCHANGED <<config, ratio_, fitted_ratio, error, calls, passed_through, result>>

(***************************************************************************)
(* _sample, lines 154-173: one turn of the loop over the included groups   *)
(***************************************************************************)
\* Faulty variant: the loop stops one group early.
LoopLengthShort == Len(IncludedGroups(classes_stats)) - 1

\* zip() stops at the shorter of included_groups and weights.
LoopLength == IF Len(weights) < Len(IncludedGroups(classes_stats))
              THEN Len(weights) ELSE Len(IncludedGroups(classes_stats))

group_values == IncludedGroups(classes_stats)[i].key

X_group == BagMap(MergeGroup(X_y, categorical_cols.val, group_values),
                  LAMBDA r : DropCategorical(r, categorical_cols.val))

\* Line 157 raises: self.ratio_ is not assigned.
GroupRatioRaises ==
    /\ pc = "loop"
    /\ i <= LoopLength
    /\ RatioRaises(initial_ratio, weights[i], majority_label)
    /\ pc' = "raised"
    /\ error' = "ValueError: cannot convert float NaN to integer"
    /\ UNCHANGED <<config, ratio_, fitted_ratio, X_y, calls, result, locals>>

GroupOversample ==
    /\ pc = "loop"
    /\ i <= LoopLength
    /\ ~RatioRaises(initial_ratio, weights[i], majority_label)
    /\ ratio_' = GroupRatio(initial_ratio, weights[i], majority_label)
    /\ \E s \in SynthVals :
          LET out == PartialSample(X_group, Cols \ Range(categorical_cols.val), ratio_', s)
              X_group_resampled ==
                  BagMap(out, LAMBDA r : AttachCategorical(r, categorical_cols.val, group_values))
          IN /\ calls' = Append(calls, Invocation(X_group, group_values, ratio_', out, FALSE))
             /\ X_resampled' = BagAdd(X_resampled, X_group_resampled)
    /\ i' = i + 1
    /\ UNCHANGED <<config, fitted_ratio, pc, error, X_y, majority_label, classes_stats,
                   weights, initial_ratio, n_overasmpled_groups_, passed_through, result>>

\* _partial_sample raises at line 165: nothing after it runs.
GroupOversampleRaises ==
    /\ pc = "loop"
    /\ i <= LoopLength
    /\ ~RatioRaises(initial_ratio, weights[i], majority_label)
    /\ ratio_' = GroupRatio(initial_ratio, weights[i], majority_label)
    /\ calls' = Append(calls, Invocation(X_group, group_values, ratio_', EmptyBag, TRUE))
    /\ pc' = "raised"
    /\ error' = "StrategyError"
    /\ UNCHANGED <<config, fitted_ratio, X_y, result, locals>>

(***************************************************************************)
(* _sample, lines 175-187: restore, excluded groups, integer columns       *)
(***************************************************************************)
\* Faulty variant: the mask of line 179 not negated.
ExcludedRowsOfIncluded(df, cat, stats) ==
    BagFilter(df, LAMBDA r : \E g \in DOMAIN IncludedGroups(stats) :
                                 IncludedGroups(stats)[g].key = GroupKey(r, cat))

ExcludedRows(df, cat, stats) ==
    BagFilter(df, LAMBDA r : \E g \in DOMAIN ExcludedGroups(stats) :
                                 ExcludedGroups(stats)[g].key = GroupKey(r, cat))

RoundAll(X, int) == BagMap(X, LAMBDA r : RoundIntegerCols(r, int))

SampleFinish ==
    /\ pc = "loop"
    /\ i > LoopLength
    /\ ratio_' = initial_ratio
    /\ passed_through' = ExcludedRows(X_y, categorical_cols.val, classes_stats)
    /\ result' = RoundAll(BagAdd(X_resampled, passed_through'), integer_cols.val)
    /\ pc' = "returned"
    /\ UNCHANGED <<config, fitted_ratio, error, X_y, calls, majority_label, classes_stats,
                   weights, initial_ratio, i, X_resampled, n_overasmpled_groups_>>

Next ==
    \/ SampleWhole
    \/ SampleWholeRaises
    \/ SampleInvalid
    \/ SampleSelectGroups
    \/ GroupRatioRaises
    \/ GroupOversample
    \/ GroupOversampleRaises
    \/ SampleFinish

Spec == Init /\ [][Next]_vars

(***************************************************************************)
(* Properties.  What a property expects is computed from the data of the   *)
(* call (X_y) and the configuration, not from the operators above.         *)
(***************************************************************************)
Grouped == categorical_cols.some
Selected == Grouped /\ Len(classes_stats) > 0
Finished == pc \in {"returned", "raised"}
Included == IncludedGroups(classes_stats)
MinorityLabels == DOMAIN fitted_ratio \ {majority_label}

KeyOf(r) == [n \in DOMAIN categorical_cols.val |-> r.x[categorical_cols.val[n]]]
GroupCount(key, label) ==
    SumOver(X_y, {r \in DOMAIN X_y : KeyOf(r) = key /\ r.y = label})
GroupRows(key) == [r \in {d \in DOMAIN X_y : KeyOf(d) = key} |-> X_y[r]]

Qualifies(key, label) ==
    /\ label # majority_label
    /\ GroupCount(key, label) > 0
    /\ GroupCount(key, majority_label) < imbalance_ratio_threshold * GroupCount(key, label)
    /\ k_neighbors.some => GroupCount(key, label) > k_neighbors.val

ModifiedRatio(key, label) ==
    <<GroupCount(key, majority_label) + 1, GroupCount(key, label) + 1>>

\* The included groups that hold rows of the label.
Holders(label) == {g \in DOMAIN Included : GroupCount(Included[g].key, label) > 0}

RECURSIVE FractionSum(_, _)
FractionSum(f, S) ==
    IF S = {} THEN <<0, 1>>
    ELSE LET e == CHOOSE e \in S : TRUE
         IN <<f[e][1] * FractionSum(f, S \ {e})[2] + FractionSum(f, S \ {e})[1] * f[e][2],
              f[e][2] * FractionSum(f, S \ {e})[2]>>

ModifiedRatioSum(label) ==
    FractionSum([g \in Holders(label) |-> ModifiedRatio(Included[g].key, label)], Holders(label))

\* floor(target * ratio / sum of ratios)
ExpectedShare(g, label) ==
    LET a == ModifiedRatio(Included[g].key, label)
        t == ModifiedRatioSum(label)
    IN (fitted_ratio[label] * a[1] * t[2]) \div (a[2] * t[1])

IsValueError(e) ==
    e \in {"ValueError: integer_cols", "ValueError: categorical_cols",
           "ValueError: common elements", "ValueError: categorical_threshold"}

----
\* C1, as claimed: after a call with categorical_cols set, returned or failed,
\* ratio_ is what it was before the call.
C1_RatioRestored == (Grouped /\ Finished) => ratio_ = fitted_ratio

----
\* C2, as claimed: when an included group has no row of some minority label,
\* the call does not fail on that account (only _partial_sample may fail it).
C2_MissingLabelTolerated ==
    (Selected /\ \E g \in DOMAIN Included, l \in MinorityLabels :
                    GroupCount(Included[g].key, l) = 0)
    => (pc = "raised" => error = "StrategyError")

----
IsExcludedRow(r) ==
    \E g \in DOMAIN classes_stats :
        classes_stats[g].key = KeyOf(r) /\ ~classes_stats[g].include

RoundedRow(r) ==
    [x |-> [c \in Cols |-> IF c \in Range(integer_cols.val) THEN NpRound(r.x[c]) ELSE r.x[c]],
     y |-> r.y]

\* C3, as claimed: after a grouped call has returned, every row of every
\* excluded group is in the output unchanged, as often as in the input.
C3_ExcludedUnchanged ==
    (Selected /\ pc = "returned") =>
        \A r \in DOMAIN X_y : IsExcludedRow(r) => Cnt(result, r) >= X_y[r]

\* C3, amended: every row of every excluded group is in the output with its
\* label and its values outside integer_cols unchanged and its values in
\* integer_cols rounded to the nearest integer, as often as in the input.
C3_ExcludedRounded ==
    (Selected /\ pc = "returned") =>
        \A r \in DOMAIN X_y : IsExcludedRow(r) =>
            Cnt(result, RoundedRow(r)) >=
                SumOver(X_y, {d \in DOMAIN X_y : IsExcludedRow(d) /\ RoundedRow(d) = RoundedRow(r)})

C3_Witness ==
    /\ Selected /\ pc = "returned"
    /\ \E r \in DOMAIN X_y : IsExcludedRow(r) /\ RoundedRow(r) # r /\ Cnt(result, r) = 0
    /\ Len(calls) > 0

----
Scenario ==
    /\ Selected
    /\ X_y = ScenarioData
    /\ majority_label = 0
    /\ ~k_neighbors.some

\* C4, as claimed: in the scenario with threshold 5 both groups are included
\* and the group with the larger modified ratio has the larger share.
C4_ScenarioIncluded ==
    (Scenario /\ imbalance_ratio_threshold = 5) =>
        /\ \A g \in DOMAIN classes_stats : classes_stats[g].include
        /\ Len(weights) = 2
        /\ RLess(weights[2][1], weights[1][1])

\* C4, amended: in the scenario both groups have imbalance ratio 10, so with
\* threshold 5 both are excluded, _partial_sample is never invoked and the
\* output is the input; they are included when the threshold is above 10,
\* and then the group with the larger modified ratio (71/8 against 31/4) has
\* the larger weight and, of a target of 100, the larger share (53 against 46).
C4_ScenarioExcluded ==
    Scenario =>
        /\ \A g \in DOMAIN classes_stats :
              classes_stats[g].include <=> imbalance_ratio_threshold > 10
        /\ imbalance_ratio_threshold <= 10 =>
              /\ calls = <<>>
              /\ weights = <<>>
              /\ pc = "returned" => result = ScenarioData
        /\ imbalance_ratio_threshold > 10 =>
              /\ Len(weights) = 2
              /\ RLess(ModifiedRatio(<<4>>, 1), ModifiedRatio(<<2>>, 1))
              /\ RLess(weights[2][1], weights[1][1])
              /\ \A n \in DOMAIN calls :
                    fitted_ratio = ScenarioRatio =>
                        calls[n].ratio[1] = IF calls[n].group = <<2>> THEN 53 ELSE 46

C4_Witness ==
    /\ Scenario
    /\ imbalance_ratio_threshold = 5
    /\ fitted_ratio = ScenarioRatio
    /\ pc = "returned"

----
\* C5, as claimed: with imbalance_ratio_threshold <= 0 every call raises
\* ValueError and never invokes _partial_sample, categorical_cols set or not.
C5_ThresholdAlwaysRejected ==
    (imbalance_ratio_threshold <= 0 /\ pc # "idle") =>
        pc = "raised" /\ IsValueError(error) /\ calls = <<>>

\* C5, amended: with categorical_cols set and imbalance_ratio_threshold <= 0
\* every call raises ValueError and never invokes _partial_sample.
C5_ThresholdRejectedWhenGrouped ==
    (Grouped /\ imbalance_ratio_threshold <= 0 /\ pc # "idle") =>
        pc = "raised" /\ IsValueError(error) /\ calls = <<>>

C5_Witness ==
    /\ Grouped
    /\ imbalance_ratio_threshold <= 0
    /\ pc = "raised"
    /\ error = "ValueError: categorical_threshold"

----
----
\* C7: with categorical_cols unset the call is one invocation of
\* _partial_sample on the whole (X, y) under the configured ratio, and returns
\* what it returns or fails as it fails: no validation error, no rounding, no
\* change of ratio_, whatever integer_cols and imbalance_ratio_threshold are.
C7_UngroupedDelegates ==
    (~Grouped /\ pc # "idle") =>
        /\ Len(calls) = 1
        /\ calls[1].X = X_y
        /\ calls[1].ratio = fitted_ratio
        /\ ratio_ = fitted_ratio
        /\ pc = "raised" => calls[1].raised /\ error = "StrategyError"
        /\ pc = "returned" =>
              /\ ~calls[1].raised
              /\ result = calls[1].out

C7_Witness ==
    /\ ~Grouped
    /\ pc = "returned"
    /\ imbalance_ratio_threshold <= 0
    /\ ~integer_cols.some
    /\ \E r \in DOMAIN result : \E c \in Cols : r.x[c] % 2 = 1
    /\ BagSize(result) > BagSize(X_y)

----
\* C8: a group is included exactly when some non-majority label present in it
\* has majority_count / label_count below imbalance_ratio_threshold and, when
\* k_neighbors is given, label_count above it.
C8_IncludeIffAny ==
    Selected =>
        /\ {classes_stats[g].key : g \in DOMAIN classes_stats} = {KeyOf(r) : r \in DOMAIN X_y}
        /\ \A g \in DOMAIN classes_stats :
              classes_stats[g].include <=>
                  \E label \in Labels : Qualifies(classes_stats[g].key, label)

C8_Witness ==
    /\ Selected
    /\ \E g \in DOMAIN classes_stats :
          /\ classes_stats[g].include
          /\ \E l1, l2 \in Labels \ {majority_label} :
                /\ Qualifies(classes_stats[g].key, l1)
                /\ GroupCount(classes_stats[g].key, l2) > 0
                /\ ~Qualifies(classes_stats[g].key, l2)
    /\ \E g \in DOMAIN classes_stats :
          /\ ~classes_stats[g].include
          /\ GroupCount(classes_stats[g].key, majority_label) > 0

----
InvokedInOrder ==
    /\ Len(calls) <= Len(Included)
    /\ pc = "returned" => Len(calls) = Len(Included)
    /\ \A n \in DOMAIN calls :
          /\ calls[n].group = Included[n].key
          /\ \A m \in 1..(n - 1) : calls[m].group # calls[n].group

MinorityShares(n) ==
    \A label \in MinorityLabels : calls[n].ratio[label] = ExpectedShare(n, label)

----
WithoutCategorical(r) ==
    [x |-> [c \in Cols \ Range(categorical_cols.val) |-> r.x[c]], y |-> r.y]

\* How many copies of the row were given to _partial_sample, over all invocations.
Sampled(r) ==
    SumOver([n \in DOMAIN calls |->
                IF calls[n].group = KeyOf(r) THEN Cnt(calls[n].X, WithoutCategorical(r)) ELSE 0],
            DOMAIN calls)

====
